---- MODULE Spec2Model ----
(***************************************************************************)
(* The notebook blog-pytorch-jax.ipynb as one sequential state machine:    *)
(* the PyTorch pipeline (train, evaluate, weight grid, torchviz), then the *)
(* JAX pipeline (init, train, evaluate, weight grid), in cell order, in    *)
(* one Python process that owns one torch random generator.                *)
(*                                                                         *)
(* What is modelled exactly: the control flow of every loop, the data      *)
(* loaders' batching and shuffling protocol, the collate functions, the    *)
(* transforms, tensor shapes and the shape checks of the two forward       *)
(* passes, the gradient buffers and the SGD-with-momentum arithmetic       *)
(* (exact fixed point), the accuracy bookkeeping and the weight grid.      *)
(*                                                                         *)
(* What is abstracted: every tensor carries its true shape but one         *)
(* representative number per example (or per parameter tensor); the float  *)
(* kernels and autograd are library code and are replaced by deterministic *)
(* integer surrogates (Forward in 3-decimal fixed point on two classes,    *)
(* LossGrad a sign-structured surrogate of the cross-entropy gradient);    *)
(* the random generators are small congruential stand-ins.  Data sets and  *)
(* the batch size are scaled down (see the bounds).                        *)
(***************************************************************************)
EXTENDS Integers, Sequences, FiniteSets, TLC

(* ---------------------------- bounds ---------------------------------- *)
BatchSize == 2       \* stands for batch_size=64
MaxTrain == 3        \* largest training set (stands for 60000)
MaxTest == 3         \* largest test set (stands for 10000)
NumSeeds == 2        \* seeds the torch generator may start from
MaxRuns == 2         \* executions of the notebook in one behaviour
RngMod == 16         \* modulus of the stand-in generators
MaxFwdBatch == 2     \* largest batch handed to a forward pass on its own
MaxCollate == 3      \* longest list handed to numpy_collate on its own

(* ----------------------- program constants ---------------------------- *)
Epochs == 2
InFeatures == 784
Hidden == 128
OutFeatures == 10
GridRows == 11
GridCols == 12
ImgSide == 28
PixelMax == 255
LrNum == 1
LrDen == 1000
MomNum == 9
MomDen == 10
HalfDen == 2
Percent == 100
JaxSeed == 0
RealBatchSize == 64
RealTrainSize == 60000
RealTestSize == 10000

(* ------------------------- arithmetic helpers ------------------------- *)
RECURSIVE Pow(_, _)
Pow(b, e) == IF e = 0 THEN 1 ELSE b * Pow(b, e - 1)

RECURSIVE Prod(_)
Prod(s) == IF s = <<>> THEN 1 ELSE Head(s) * Prod(Tail(s))

RECURSIVE Fact(_)
Fact(n) == IF n <= 1 THEN 1 ELSE n * Fact(n - 1)

Min(a, b) == IF a < b THEN a ELSE b

CeilDiv(a, b) == (a + b - 1) \div b

Sgn(v) == IF v > 0 THEN 1 ELSE IF v < 0 THEN -1 ELSE 0

Last(s) == s[Len(s)]

Front(s) == SubSeq(s, 1, Len(s) - 1)

RemoveAt(s, i) == SubSeq(s, 1, i - 1) \o SubSeq(s, i + 1, Len(s))

(* Fixed point.  Inputs are multiples of 1/FixOne; parameters, gradients'  *)
(* effects and momentum are multiples of 1/Scale, which makes lr = 1/1000  *)
(* and momentum = 9/10 exact for MaxSteps optimizer steps.                 *)
FixOne == HalfDen
MaxSteps == Epochs * CeilDiv(MaxTrain, BatchSize)
BufScale == Pow(MomDen, MaxSteps)
Scale == LrDen * BufScale
FwdDen == LrDen

(* ---------------------------- Python values --------------------------- *)
(* kind: "int", "tensor" (torch.Tensor), "ndarray", "tuple", "list",       *)
(* "error".  shape is the array shape; vals holds one representative       *)
(* number per example (per leading index), items the members of a tuple.   *)
PyInt(n) == [kind |-> "int", shape |-> <<>>, vals |-> <<n>>, items |-> <<>>]

PyTensor(shape, v) == [kind |-> "tensor", shape |-> shape, vals |-> <<v>>, items |-> <<>>]

PyTuple(items) == [kind |-> "tuple", shape |-> <<>>, vals |-> <<>>, items |-> items]

PyError == [kind |-> "error", shape |-> <<>>, vals |-> <<>>, items |-> <<>>]

RECURSIVE ConcatVals(_)
ConcatVals(batch) ==
    IF batch = <<>> THEN <<>> ELSE Head(batch).vals \o ConcatVals(Tail(batch))

(* ------------------------------ transforms ---------------------------- *)
ImageShape == <<1, ImgSide, ImgSide>>

\* transforms.ToTensor(): uint8 pixel / 255, as a (1,28,28) float tensor.
ToTensor(px) == PyTensor(ImageShape, (px * FixOne) \div PixelMax)

\* transforms.Normalize((0.5,), (0.5,)): (x - mean) / std.
Normalize(t) ==
    [t EXCEPT !.vals = <<(t.vals[1] - FixOne \div HalfDen) * HalfDen>>]

TrainTransform(px) == ToTensor(px)

TorchTestTransform(px) == Normalize(ToTensor(px))

JaxTestTransform(px) == ToTensor(px)

(* ------------------------------ collation ----------------------------- *)
\* np.array(batch) / np.stack(batch): a new leading axis, members in order.
NpArray(batch) ==
    [kind |-> "ndarray", shape |-> <<Len(batch)>> \o batch[1].shape,
     vals |-> ConcatVals(batch), items |-> <<>>]

NpStack(batch) == NpArray(batch)

\* zip(*batch): member j of every sample, for each position j of a sample.
ZipStar(batch) ==
    [j \in 1..Len(batch[1].items) |-> [i \in 1..Len(batch) |-> batch[i].items[j]]]

\* A collate that loops over the samples instead of over zip(*batch).
NumpyCollateNoZip(batch) ==
    [kind |-> "list", shape |-> <<>>, vals |-> <<>>,
     items |-> [i \in 1..Len(batch) |-> NpArray(batch[i].items)]]

RECURSIVE numpy_collate(_)
numpy_collate(batch) ==
    IF batch[1].kind = "ndarray" THEN NpStack(batch)
    ELSE IF batch[1].kind \in {"tuple", "list"}
         THEN LET transposed == ZipStar(batch)
              IN  [kind |-> "list", shape |-> <<>>, vals |-> <<>>,
                   items |-> [j \in 1..Len(transposed) |-> numpy_collate(transposed[j])]]
         ELSE NpArray(batch)

\* torch.utils.data default_collate on (tensor, int) samples: torch.stack of
\* the images and torch.tensor of the labels.
default_collate(batch) ==
    LET transposed == ZipStar(batch)
    IN  [kind |-> "list", shape |-> <<>>, vals |-> <<>>,
         items |-> [j \in 1..Len(transposed) |->
                       [NpArray(transposed[j]) EXCEPT !.kind = "tensor"]]]

(* ------------------------------- the models --------------------------- *)
ParamNames == {"w1", "b1", "w2", "b2"}

ZeroParams == [n \in ParamNames |-> 0]

\* nn.Linear(784, 128).weight and nn.Linear(128, 10).weight: (out, in).
Fc1Shape == <<Hidden, InFeatures>>

Fc2Shape == <<OutFeatures, Hidden>>

\* nn.Dense(features) created on an input of shape s: kernel (s[-1], features).
DenseKernelShape(inShape, features) == <<Last(inShape), features>>

InitInputShape == <<1, ImgSide * ImgSide>>

Dense0Shape == DenseKernelShape(InitInputShape, Hidden)

Dense1Shape == DenseKernelShape(<<1, Hidden>>, OutFeatures)

\* A parameter as the forward kernels read it: 3 decimals.
Quant(p) == p \div (Scale \div FwdDen)

AffineVals(x, w, b, one) == [i \in 1..Len(x.vals) |-> Quant(w) * x.vals[i] + Quant(b) * one]

\* torch.flatten(x, 1)
Flatten1(x) ==
    IF Len(x.shape) < 2 THEN PyError
    ELSE [x EXCEPT !.shape = <<x.shape[1], Prod(Tail(x.shape))>>]

\* A linear layer without the shape check (a kernel that multiplies what it
\* gets).
TorchLinearUnchecked(x, wShape, w, b, one) ==
    [x EXCEPT !.shape = Front(x.shape) \o <<wShape[1]>>,
              !.vals = AffineVals(x, w, b, one)]

\* F.linear(x, weight, bias): the last dimension of x must be in_features.
TorchLinear(x, wShape, w, b, one) ==
    IF Last(x.shape) # wShape[2] THEN PyError
    ELSE [x EXCEPT !.shape = Front(x.shape) \o <<wShape[1]>>,
                   !.vals = AffineVals(x, w, b, one)]

Relu(x) == [x EXCEPT !.vals = [i \in 1..Len(x.vals) |-> IF x.vals[i] > 0 THEN x.vals[i] ELSE 0]]

\* Net.forward: what it returns and which of its operations completed.
NetForward(p, x) ==
    LET f == Flatten1(x)
    IN  IF f.kind = "error" THEN [out |-> PyError, ran |-> <<>>]
        ELSE LET a == TorchLinear(f, Fc1Shape, p["w1"], p["b1"], FixOne)
             IN  IF a.kind = "error" THEN [out |-> PyError, ran |-> <<"flatten">>]
                 ELSE LET z == TorchLinear(Relu(a), Fc2Shape, p["w2"], p["b2"],
                                           FixOne * FwdDen)
                      IN  IF z.kind = "error"
                          THEN [out |-> PyError, ran |-> <<"flatten", "fc1", "relu">>]
                          ELSE [out |-> z, ran |-> <<"flatten", "fc1", "relu", "fc2">>]

\* jnp.reshape(x, (x.shape[0], -1))
ReshapeRows(x) ==
    IF Len(x.shape) < 1 \/ Prod(x.shape) = 0 THEN PyError
    ELSE [x EXCEPT !.shape = <<x.shape[1], Prod(Tail(x.shape))>>, !.kind = "ndarray"]

\* nn.Dense(features)(x) under apply: the stored kernel must have the shape
\* the layer derives from x, else flax raises before the product.
FlaxDense(x, kShape, features, w, b, one) ==
    IF DenseKernelShape(x.shape, features) # kShape THEN PyError
    ELSE [x EXCEPT !.shape = Front(x.shape) \o <<features>>,
                   !.vals = AffineVals(x, w, b, one)]

\* SimpleNN.__call__
SimpleNNCall(p, x) ==
    LET f == ReshapeRows(x)
    IN  IF f.kind = "error" THEN [out |-> PyError, ran |-> <<>>]
        ELSE LET a == FlaxDense(f, Dense0Shape, Hidden, p["w1"], p["b1"], FixOne)
             IN  IF a.kind = "error" THEN [out |-> PyError, ran |-> <<"flatten">>]
                 ELSE LET z == FlaxDense(Relu(a), Dense1Shape, OutFeatures, p["w2"],
                                         p["b2"], FixOne * FwdDen)
                      IN  IF z.kind = "error"
                          THEN [out |-> PyError, ran |-> <<"flatten", "fc1", "relu">>]
                          ELSE [out |-> z, ran |-> <<"flatten", "fc1", "relu", "fc2">>]

\* torch.max(outputs, 1)[1] and jnp.argmax(logits, -1) on the two-class
\* reading (0, z) of a logit row: the first maximal index.
Argmax(logits) == [i \in 1..Len(logits.vals) |-> IF logits.vals[i] > 0 THEN 1 ELSE 0]

RECURSIVE CountEqual(_, _)
CountEqual(a, b) ==
    IF a = <<>> \/ b = <<>> THEN 0
    ELSE (IF Head(a) = Head(b) THEN 1 ELSE 0) + CountEqual(Tail(a), Tail(b))

(* Surrogate of d(mean cross-entropy)/d(params) at params p on one batch:  *)
(* per example delta = 2*(hard sigmoid of z) - 2*label, sent back through  *)
(* the two layers by sign, summed over the batch.                          *)
RECURSIVE SumSeq(_)
SumSeq(s) == IF s = <<>> THEN 0 ELSE Head(s) + SumSeq(Tail(s))

ExampleGrad(p, v, y) ==
    LET a == Quant(p["w1"]) * v + Quant(p["b1"]) * FixOne
        h == IF a > 0 THEN a ELSE 0
        z == Quant(p["w2"]) * h + Quant(p["b2"]) * FixOne * FwdDen
        delta == (1 + Sgn(z)) - 2 * y
        act == IF a > 0 THEN 1 ELSE 0
    IN  [n \in ParamNames |->
            CASE n = "b2" -> delta
              [] n = "w2" -> delta * act
              [] n = "b1" -> delta * act * Sgn(p["w2"])
              [] n = "w1" -> delta * act * Sgn(p["w2"]) * Sgn(v)]

LossGrad(p, inputs, labels) ==
    [n \in ParamNames |->
        SumSeq([i \in 1..Len(labels.vals) |->
                   ExampleGrad(p, inputs.vals[i], labels.vals[i])[n]])]

(* ------------------------------ optimizers ---------------------------- *)
\* momentum * v for v a multiple of 1/BufScale or 1/Scale.
TimesMomentum(v) == (v * MomNum) \div MomDen

\* lr * buf: buf in 1/BufScale, the result in 1/Scale.
TimesLr(buf) == (buf * LrNum * (Scale \div BufScale)) \div LrDen

\* torch.optim.SGD.step with momentum, dampening 0: the buffer starts as a
\* copy of the first gradient, then buf = momentum*buf + grad; p -= lr*buf.
TorchSgdBuf(m, g) ==
    [set |-> TRUE,
     b |-> [n \in ParamNames |->
              IF m.set THEN TimesMomentum(m.b[n]) + g[n] * BufScale
              ELSE g[n] * BufScale]]

TorchSgdParams(p, m) == [n \in ParamNames |-> p[n] - TimesLr(m.b[n])]

\* optax.sgd(learning_rate, momentum): trace = grad + momentum*trace (from
\* zeros); updates = -lr*trace; apply_updates adds them.
OptaxTrace(t, g) == [n \in ParamNames |-> g[n] * BufScale + TimesMomentum(t[n])]

OptaxApply(p, t) == [n \in ParamNames |-> p[n] + (0 - TimesLr(t[n]))]

(* --------------------------- random generators ------------------------ *)
\* One draw of the torch default generator: the value returned is the state.
Advance(g) == (5 * g + 3) % RngMod

RECURSIVE AdvanceBy(_, _)
AdvanceBy(g, k) == IF k = 0 THEN g ELSE AdvanceBy(Advance(g), k - 1)

RECURSIVE KthPerm(_, _)
KthPerm(k, items) ==
    IF items = <<>> THEN <<>>
    ELSE LET i == (k % Len(items)) + 1
         IN  <<items[i]>> \o KthPerm(k \div Len(items), RemoveAt(items, i))

Identity(n) == [i \in 1..n |-> i]

\* RandomSampler.__iter__: a seed drawn from the default generator, then
\* torch.randperm(n) from a generator seeded with it.
RandPerm(g, n) == KthPerm(g % Fact(n), Identity(n))

\* SequentialSampler
SeqOrder(n) == Identity(n)

\* nn.Linear.reset_parameters: uniform in a symmetric interval.
InitUniform(d) == ((d % 3) - 1) * (Scale \div HalfDen)

\* jax.random.split(key) and the per-layer key flax folds from it.
Split(key) == <<(2 * key + 1) % RngMod, (2 * key + 2) % RngMod>>

FoldIn(key, n) == (5 * key + 3 * n + 1) % RngMod

\* lecun_normal kernel init; flax biases start at zero.
LecunNormal(key) == ((key % 3) - 1) * (Scale \div HalfDen)

(* ------------------------------ data loaders -------------------------- *)
\* The transform each dataset object was constructed with.
DatasetTransform(ds, px) ==
    CASE ds = "training_data" -> TrainTransform(px)
      [] ds = "test_dataset" -> TorchTestTransform(px)
      [] ds = "test_data" -> JaxTestTransform(px)

\* Dataset.__getitem__: (transform(image), label)
GetItem(set, i, ds) == PyTuple(<<DatasetTransform(ds, set[i].px), PyInt(set[i].label)>>)

\* A loader built with drop_last=True yields full batches only.
HasNextDropLast(n, pos, bs) == pos + bs <= n

\* BatchSampler with drop_last=False: batches while indices remain, the
\* last one possibly short.
HasNext(n, pos, bs) == pos < n

BatchLen(n, pos, bs) == Min(bs, n - pos)

BatchIdx(order, pos, bs) == SubSeq(order, pos + 1, pos + BatchLen(Len(order), pos, bs))

Samples(set, idx, ds) == [i \in 1..Len(idx) |-> GetItem(set, idx[i], ds)]

\* Iterations of `for batch in loader` over n examples: the first k at which
\* the loader, k batches of bs on, has nothing left to yield.
CountBatches(n, bs) ==
    CHOOSE k \in 0..n : /\ ~HasNext(n, k * bs, bs)
                        /\ \A j \in 0..(k - 1) : HasNext(n, j * bs, bs)

RealTrainBatches == CountBatches(RealTrainSize, RealBatchSize)

RealTestBatches == CountBatches(RealTestSize, RealBatchSize)

(* ------------------------------- accuracy ----------------------------- *)
\* Fractions <<num, den>>, den > 0.
FracAdd(a, b) == <<a[1] * b[2] + b[1] * a[2], a[2] * b[2]>>

RECURSIVE FracSum(_)
FracSum(s) == IF s = <<>> THEN <<0, 1>> ELSE FracAdd(Head(s), FracSum(Tail(s)))

FracEq(a, b) == a[1] * b[2] = b[1] * a[2]

FracLeq(a, b) == a[1] * b[2] <= b[1] * a[2]

\* total += 1 per batch instead of labels.size(0)
OnePerBatch(labels) == 1

\* labels.size(0)
LabelsSize0(labels) == labels.shape[1]

\* evaluate_model: accuracy = 100 * correct / total
TorchAccuracy(c, t) == <<Percent * c, t>>

\* accuracy(logits, labels) = jnp.mean(argmax == labels), one batch
BatchAccuracy(logits, labels) == <<CountEqual(Argmax(logits), labels.vals), Len(labels.vals)>>

\* np.mean(accuracies)
NpMean(accs) == LET t == FracSum(accs) IN <<t[1], t[2] * Len(accs)>>

(* ------------------------------ weight grid --------------------------- *)
GridCells == GridRows * GridCols

Transpose(shape) == <<shape[2], shape[1]>>

\* weights = net.fc1.weight.data.numpy()
TorchGridWeights == [shape |-> Fc1Shape]

\* weights = state.params['Dense_0']['kernel']; weights = weights.T
JaxGridWeights == [shape |-> Transpose(Dense0Shape)]

\* The same with the test i <= len(weights).
GridDrawInclusive(w, i, drawn) ==
    IF i <= w.shape[1]
    THEN Append(drawn, [cell |-> i, row |-> i, img |-> <<ImgSide, w.shape[2] \div ImgSide>>])
    ELSE drawn

\* One iteration of `for i, ax in enumerate(axes.flat)`: the tiles after it.
GridDraw(w, i, drawn) ==
    IF i < w.shape[1]
    THEN Append(drawn, [cell |-> i, row |-> i, img |-> <<ImgSide, w.shape[2] \div ImgSide>>])
    ELSE drawn

\* weights[i].reshape(28, 28) needs a row of 784 values.
ReshapeOk(w, i) == i < w.shape[1] => w.shape[2] = ImgSide * ImgSide

(* ------------------------------ autograd ------------------------------ *)
\* p.grad: None (set = FALSE) or a tensor per parameter.
NoGrad == [set |-> FALSE, g |-> ZeroParams]

\* A training loop without zero_grad keeps the old gradients.
KeepGrad(pg) == pg

\* optimizer.zero_grad(): every p.grad back to None.
ZeroGrad(pg) == NoGrad

\* loss.backward(): p.grad is set, or added to when it already holds one.
Backward(pg, g) ==
    [set |-> TRUE, g |-> [n \in ParamNames |-> IF pg.set THEN pg.g[n] + g[n] ELSE g[n]]]

NoMomentum == [set |-> FALSE, b |-> ZeroParams]

(* -------------------------------- state ------------------------------- *)
VARIABLES
    trainSet, testSet,        \* the data sets on disk: samples [px, label]
    run, pc,                  \* execution number, position in the notebook
    gen,                      \* state of torch's default generator
    epoch, order, pos, batch, \* loop variables of the current loader loop
    net, pgrad, optState, training, correct, total,   \* PyTorch pipeline
    rng, state, accuracies,   \* JAX pipeline
    weights, cell, tiles,     \* weight grid
    printed, files,           \* outputs
    hist, prev,               \* history of this run, summary of the last one
    fwdIn, fwdOut,            \* a forward pass called on an arbitrary batch
    collIn, collOut           \* numpy_collate called on an arbitrary list

world == <<trainSet, testSet>>

loopVars == <<epoch, order, pos, batch>>

torchVars == <<net, pgrad, optState, training, correct, total>>

jaxVars == <<rng, state, accuracies>>

gridVars == <<weights, cell, tiles>>

outVars == <<printed, files>>

callVars == <<fwdIn, fwdOut, collIn, collOut>>

vars == <<trainSet, testSet, run, pc, gen, epoch, order, pos, batch, net, pgrad,
          optState, training, correct, total, rng, state, accuracies, weights,
          cell, tiles, printed, files, hist, prev, fwdIn, fwdOut, collIn, collOut>>

Labels == {0, 1}

\* Pixel of example i: dark and bright images alternate.
PixelAt(i) == IF i % 2 = 1 THEN PixelMax ELSE 0

DataSets(lo, hi) ==
    UNION {{[i \in 1..n |-> [px |-> PixelAt(i), label |-> lab[i]]] :
               lab \in [1..n -> Labels]} : n \in lo..hi}

\* Training labels follow the pixel except for the last example.
TrainSets ==
    {[i \in 1..n |-> [px |-> PixelAt(i), label |-> IF i = n THEN 0 ELSE i % 2]] :
        n \in 1..MaxTrain}

TestSets == DataSets(1, MaxTest)

NoBatch == [who |-> "none", idx |-> <<>>, data |-> PyError]

NoState == [params |-> ZeroParams, trace |-> ZeroParams, step |-> 0]

NoCall == [who |-> "none", out |-> PyError, ran |-> <<>>]

NoHist ==
    [tInit |-> ZeroParams, jInit |-> ZeroParams, seed |-> -1, orders |-> <<>>,
     tLog |-> <<>>, jLog |-> <<>>, tBatches |-> <<>>, jBatches |-> <<>>,
     tEval |-> 0, jEval |-> 0]

NoPrev == [valid |-> FALSE, hist |-> NoHist, printed |-> <<>>]

\* A fresh Python process before the first code cell.
FreshProcess ==
    /\ pc = "t_init"
    /\ epoch = 0 /\ order = <<>> /\ pos = 0 /\ batch = NoBatch
    /\ net = ZeroParams /\ pgrad = NoGrad /\ optState = NoMomentum
    /\ training = TRUE /\ correct = 0 /\ total = 0
    /\ rng = 0 /\ state = NoState /\ accuracies = <<>>
    /\ weights = [shape |-> <<0, 0>>] /\ cell = 0 /\ tiles = <<>>
    /\ printed = <<>> /\ files = {}
    /\ hist = NoHist

NoCalls ==
    /\ fwdIn = PyError /\ fwdOut = NoCall
    /\ collIn = <<>> /\ collOut = PyError

Init ==
    /\ trainSet \in TrainSets
    /\ testSet \in TestSets
    /\ run = 1
    /\ gen \in 0..(NumSeeds - 1)
    /\ prev = NoPrev
    /\ FreshProcess
    /\ NoCalls

(* --------------------------- PyTorch pipeline ------------------------- *)
\* net = Net(); criterion; optimizer = optim.SGD(net.parameters(), ...)
TorchInit ==
    /\ pc = "t_init"
    /\ LET p0 == [n \in ParamNames |->
                    CASE n = "w1" -> InitUniform(gen)
                      [] n = "b1" -> InitUniform(AdvanceBy(gen, 1))
                      [] n = "w2" -> InitUniform(AdvanceBy(gen, 2))
                      [] n = "b2" -> InitUniform(AdvanceBy(gen, 3))]
       IN  /\ net' = p0
           /\ hist' = [hist EXCEPT !.tInit = p0]
    /\ gen' = AdvanceBy(gen, 4)
    /\ pgrad' = NoGrad
    /\ optState' = NoMomentum
    /\ training' = TRUE
    /\ epoch' = 0
    /\ pc' = "t_epoch"
    /\ UNCHANGED <<world, run, order, pos, batch, correct, total, jaxVars, gridVars,
                   outVars, prev, callVars>>

\* for epoch in range(2): for i, data in enumerate(trainloader, 0):
TorchEpochStart ==
    /\ pc = "t_epoch"
    /\ epoch < Epochs
    /\ order' = RandPerm(gen, Len(trainSet))
    /\ gen' = Advance(gen)
    /\ pos' = 0
    /\ hist' = [hist EXCEPT !.orders = Append(@, order'), !.tBatches = Append(@, 0)]
    /\ pc' = "t_batch"
    /\ UNCHANGED <<world, run, epoch, batch, torchVars, jaxVars, gridVars, outVars,
                   prev, callVars>>

\* The body of the training loop, lines 76-81.
TorchTrainStep ==
    /\ pc = "t_batch"
    /\ HasNext(Len(order), pos, BatchSize)
    /\ LET idx == BatchIdx(order, pos, BatchSize)
           data == default_collate(Samples(trainSet, idx, "training_data"))
           inputs == data.items[1]
           labels == data.items[2]
           zeroed == ZeroGrad(pgrad)
           outputs == NetForward(net, inputs)
           g == LossGrad(net, inputs, labels)
           grads == Backward(zeroed, g)
           buf == TorchSgdBuf(optState, grads.g)
       IN  /\ batch' = [who |-> "t_train", idx |-> idx, data |-> data]
           /\ pos' = pos + Len(idx)
           /\ IF outputs.out.kind = "error"
              THEN /\ pc' = "error"
                   /\ pgrad' = zeroed
                   /\ UNCHANGED <<net, optState, hist>>
              ELSE /\ pc' = "t_batch"
                   /\ pgrad' = grads
                   /\ optState' = buf
                   /\ net' = TorchSgdParams(net, buf)
                   /\ hist' = [hist EXCEPT
                                 !.tLog = Append(@, [inputs |-> inputs, labels |-> labels]),
                                 !.tBatches[Len(hist.tBatches)] = @ + 1]
    /\ UNCHANGED <<world, run, gen, epoch, order, training, correct, total, jaxVars,
                   gridVars, outVars, prev, callVars>>

\* The loader is exhausted: the inner loop ends.
TorchEpochEnd ==
    /\ pc = "t_batch"
    /\ ~HasNext(Len(order), pos, BatchSize)
    /\ epoch' = epoch + 1
    /\ pc' = "t_epoch"
    /\ UNCHANGED <<world, run, gen, order, pos, batch, torchVars, jaxVars, gridVars,
                   outVars, hist, prev, callVars>>

\* test_loader (shuffle=False); evaluate_model: model.eval(); correct = total = 0
TorchEvalStart ==
    /\ pc = "t_epoch"
    /\ epoch >= Epochs
    /\ training' = FALSE
    /\ correct' = 0
    /\ total' = 0
    /\ order' = SeqOrder(Len(testSet))
    /\ pos' = 0
    /\ pc' = "t_eval"
    /\ UNCHANGED <<world, run, gen, epoch, batch, net, pgrad, optState, jaxVars,
                   gridVars, outVars, hist, prev, callVars>>

\* One iteration of the loop under torch.no_grad(), lines 103-107.
TorchEvalStep ==
    /\ pc = "t_eval"
    /\ HasNext(Len(order), pos, BatchSize)
    /\ LET idx == BatchIdx(order, pos, BatchSize)
           data == default_collate(Samples(testSet, idx, "test_dataset"))
           images == data.items[1]
           labels == data.items[2]
           outputs == NetForward(net, images)
       IN  /\ batch' = [who |-> "t_eval", idx |-> idx, data |-> data]
           /\ pos' = pos + Len(idx)
           /\ IF outputs.out.kind = "error"
              THEN /\ pc' = "error"
                   /\ UNCHANGED <<correct, total, hist>>
              ELSE /\ pc' = "t_eval"
                   /\ total' = total + LabelsSize0(labels)
                   /\ correct' = correct + CountEqual(Argmax(outputs.out), labels.vals)
                   /\ hist' = [hist EXCEPT !.tEval = @ + 1]
    /\ UNCHANGED <<world, run, gen, epoch, order, net, pgrad, optState, training,
                   jaxVars, gridVars, outVars, prev, callVars>>

\* accuracy = 100 * correct / total; print(...)
TorchReport ==
    /\ pc = "t_eval"
    /\ ~HasNext(Len(order), pos, BatchSize)
    /\ IF total = 0
       THEN pc' = "error" /\ UNCHANGED printed
       ELSE /\ pc' = "t_grid_start"
            /\ printed' = Append(printed, [who |-> "torch", value |-> TorchAccuracy(correct, total)])
    /\ UNCHANGED <<world, run, gen, loopVars, torchVars, jaxVars, gridVars, files,
                   hist, prev, callVars>>

\* A display step that rescales the array it got from .data.numpy() in
\* place: the array shares its memory with fc1.weight.
TorchGridStartInPlace ==
    /\ pc = "t_grid_start"
    /\ weights' = TorchGridWeights
    /\ net' = [net EXCEPT !["w1"] = @ - Scale]
    /\ cell' = 0
    /\ tiles' = <<>>
    /\ pc' = "t_grid"
    /\ UNCHANGED <<world, run, gen, loopVars, pgrad, optState, training, correct, total,
                   jaxVars, outVars, hist, prev, callVars>>

\* weights = net.fc1.weight.data.numpy(); fig, axes = plt.subplots(11, 12)
TorchGridStart ==
    /\ pc = "t_grid_start"
    /\ weights' = TorchGridWeights
    /\ cell' = 0
    /\ tiles' = <<>>
    /\ pc' = "t_grid"
    /\ UNCHANGED <<world, run, gen, loopVars, torchVars, jaxVars, outVars, hist, prev,
                   callVars>>

\* One grid cell: imshow when i < len(weights), then ax.axis('off').
TorchGridStep ==
    /\ pc = "t_grid"
    /\ cell < GridCells
    /\ IF ReshapeOk(weights, cell)
       THEN /\ tiles' = GridDraw(weights, cell, tiles)
            /\ cell' = cell + 1
            /\ pc' = "t_grid"
       ELSE /\ pc' = "error"
            /\ UNCHANGED <<tiles, cell>>
    /\ UNCHANGED <<world, run, gen, loopVars, torchVars, jaxVars, weights, outVars,
                   hist, prev, callVars>>

\* plt.show()
TorchGridShow ==
    /\ pc = "t_grid"
    /\ cell >= GridCells
    /\ pc' = "t_viz"
    /\ UNCHANGED <<world, run, gen, loopVars, torchVars, jaxVars, gridVars, outVars,
                   hist, prev, callVars>>

\* dummy_input = torch.randn(1, 784); output = net(dummy_input); make_dot;
\* graph.render('network_graph', format='png')
TorchViz ==
    /\ pc = "t_viz"
    /\ gen' = Advance(gen)
    /\ LET dummy == [kind |-> "tensor", shape |-> <<1, InFeatures>>,
                     vals |-> <<((gen % 3) - 1) * FixOne>>, items |-> <<>>]
           output == NetForward(net, dummy)
       IN  IF output.out.kind = "error"
           THEN pc' = "error" /\ UNCHANGED files
           ELSE pc' = "j_init" /\ files' = files \cup {"network_graph.png"}
    /\ UNCHANGED <<world, run, loopVars, torchVars, jaxVars, gridVars, printed, hist,
                   prev, callVars>>

(* ----------------------------- JAX pipeline --------------------------- *)
\* rng = PRNGKey(0); rng, init_rng = split(rng); params = model.init(...);
\* tx = optax.sgd(0.001, 0.9); state = TrainState.create(...)
JaxInit ==
    /\ pc = "j_init"
    /\ LET keys == Split(JaxSeed)
           p0 == [n \in ParamNames |->
                    CASE n = "w1" -> LecunNormal(FoldIn(keys[2], 0))
                      [] n = "w2" -> LecunNormal(FoldIn(keys[2], 1))
                      [] OTHER -> 0]
       IN  /\ rng' = keys[1]
           /\ state' = [params |-> p0, trace |-> ZeroParams, step |-> 0]
           /\ hist' = [hist EXCEPT !.jInit = p0, !.seed = JaxSeed]
    /\ epoch' = 0
    /\ pc' = "j_epoch"
    /\ UNCHANGED <<world, run, gen, order, pos, batch, torchVars, accuracies, gridVars,
                   outVars, prev, callVars>>

\* for epoch in range(2): for batch in trainloader:
JaxEpochStart ==
    /\ pc = "j_epoch"
    /\ epoch < Epochs
    /\ order' = RandPerm(gen, Len(trainSet))
    /\ gen' = Advance(gen)
    /\ pos' = 0
    /\ hist' = [hist EXCEPT !.orders = Append(@, order'), !.jBatches = Append(@, 0)]
    /\ pc' = "j_batch"
    /\ UNCHANGED <<world, run, epoch, batch, torchVars, jaxVars, gridVars, outVars,
                   prev, callVars>>

\* state.apply_gradients(grads=grads)
ApplyGradients(st, grads) ==
    LET t == OptaxTrace(st.trace, grads)
    IN  [params |-> OptaxApply(st.params, t), trace |-> t, step |-> st.step + 1]

\* train_step(state, batch), lines 231-242: the state it returns, or the
\* state unchanged with ok = FALSE when the forward pass raises.
train_step(st, data) ==
    LET inputs == ReshapeRows(data.items[1])
        labels == data.items[2]
        fwd == IF inputs.kind = "error" THEN [out |-> PyError, ran |-> <<>>]
               ELSE SimpleNNCall(st.params, inputs)
    IN  IF fwd.out.kind = "error" THEN [ok |-> FALSE, state |-> st]
        ELSE [ok |-> TRUE,
              state |-> ApplyGradients(st, LossGrad(st.params, inputs, labels))]

JaxTrainStep ==
    /\ pc = "j_batch"
    /\ HasNext(Len(order), pos, BatchSize)
    /\ LET idx == BatchIdx(order, pos, BatchSize)
           data == numpy_collate(Samples(trainSet, idx, "training_data"))
           r == train_step(state, data)
       IN  /\ batch' = [who |-> "j_train", idx |-> idx, data |-> data]
           /\ pos' = pos + Len(idx)
           /\ state' = r.state
           /\ IF r.ok
              THEN /\ pc' = "j_batch"
                   /\ hist' = [hist EXCEPT
                                 !.jLog = Append(@, [inputs |-> ReshapeRows(data.items[1]),
                                                     labels |-> data.items[2]]),
                                 !.jBatches[Len(hist.jBatches)] = @ + 1]
              ELSE pc' = "error" /\ UNCHANGED hist
    /\ UNCHANGED <<world, run, gen, epoch, order, torchVars, rng, accuracies, gridVars,
                   outVars, prev, callVars>>

JaxEpochEnd ==
    /\ pc = "j_batch"
    /\ ~HasNext(Len(order), pos, BatchSize)
    /\ epoch' = epoch + 1
    /\ pc' = "j_epoch"
    /\ UNCHANGED <<world, run, gen, order, pos, batch, torchVars, jaxVars, gridVars,
                   outVars, hist, prev, callVars>>

\* accuracies = []; for batch in testloader:
JaxEvalStart ==
    /\ pc = "j_epoch"
    /\ epoch >= Epochs
    /\ accuracies' = <<>>
    /\ order' = SeqOrder(Len(testSet))
    /\ pos' = 0
    /\ pc' = "j_eval"
    /\ UNCHANGED <<world, run, gen, epoch, batch, torchVars, rng, state, gridVars,
                   outVars, hist, prev, callVars>>

\* eval_step(params, batch), lines 261-266
eval_step(params, data) ==
    LET inputs == ReshapeRows(data.items[1])
        labels == data.items[2]
        fwd == IF inputs.kind = "error" THEN [out |-> PyError, ran |-> <<>>]
               ELSE SimpleNNCall(params, inputs)
    IN  IF fwd.out.kind = "error" THEN [ok |-> FALSE, acc |-> <<0, 1>>]
        ELSE [ok |-> TRUE, acc |-> BatchAccuracy(fwd.out, labels)]

\* accuracies.append(eval_step(state.params, batch))
JaxEvalStep ==
    /\ pc = "j_eval"
    /\ HasNext(Len(order), pos, BatchSize)
    /\ LET idx == BatchIdx(order, pos, BatchSize)
           data == numpy_collate(Samples(testSet, idx, "test_data"))
           r == eval_step(state.params, data)
       IN  /\ batch' = [who |-> "j_eval", idx |-> idx, data |-> data]
           /\ pos' = pos + Len(idx)
           /\ IF r.ok
              THEN /\ pc' = "j_eval"
                   /\ accuracies' = Append(accuracies, r.acc)
                   /\ hist' = [hist EXCEPT !.jEval = @ + 1]
              ELSE pc' = "error" /\ UNCHANGED <<accuracies, hist>>
    /\ UNCHANGED <<world, run, gen, epoch, order, torchVars, rng, state, gridVars,
                   outVars, prev, callVars>>

\* print('Test set accuracy:', np.mean(accuracies))
JaxReport ==
    /\ pc = "j_eval"
    /\ ~HasNext(Len(order), pos, BatchSize)
    /\ printed' = Append(printed, [who |-> "jax", value |-> NpMean(accuracies)])
    /\ pc' = "j_grid_start"
    /\ UNCHANGED <<world, run, gen, loopVars, torchVars, jaxVars, gridVars, files,
                   hist, prev, callVars>>

\* weights = state.params['Dense_0']['kernel']; weights = weights.T; subplots
JaxGridStart ==
    /\ pc = "j_grid_start"
    /\ weights' = JaxGridWeights
    /\ cell' = 0
    /\ tiles' = <<>>
    /\ pc' = "j_grid"
    /\ UNCHANGED <<world, run, gen, loopVars, torchVars, jaxVars, outVars, hist, prev,
                   callVars>>

JaxGridStep ==
    /\ pc = "j_grid"
    /\ cell < GridCells
    /\ IF ReshapeOk(weights, cell)
       THEN /\ tiles' = GridDraw(weights, cell, tiles)
            /\ cell' = cell + 1
            /\ pc' = "j_grid"
       ELSE /\ pc' = "error"
            /\ UNCHANGED <<tiles, cell>>
    /\ UNCHANGED <<world, run, gen, loopVars, torchVars, jaxVars, weights, outVars,
                   hist, prev, callVars>>

JaxGridShow ==
    /\ pc = "j_grid"
    /\ cell >= GridCells
    /\ pc' = "done"
    /\ UNCHANGED <<world, run, gen, loopVars, torchVars, jaxVars, gridVars, outVars,
                   hist, prev, callVars>>

(* ------------------------------ the notebook -------------------------- *)
\* The notebook is executed again in a fresh process (restart and run all):
\* the data on disk stays, the torch generator is seeded afresh.
Rerun ==
    /\ pc = "done"
    /\ run < MaxRuns
    /\ run' = run + 1
    /\ prev' = [valid |-> TRUE, hist |-> hist, printed |-> printed]
    /\ gen' \in 0..(NumSeeds - 1)
    /\ pc' = "t_init"
    /\ epoch' = 0 /\ order' = <<>> /\ pos' = 0 /\ batch' = NoBatch
    /\ net' = ZeroParams /\ pgrad' = NoGrad /\ optState' = NoMomentum
    /\ training' = TRUE /\ correct' = 0 /\ total' = 0
    /\ rng' = 0 /\ state' = NoState /\ accuracies' = <<>>
    /\ weights' = [shape |-> <<0, 0>>] /\ cell' = 0 /\ tiles' = <<>>
    /\ printed' = <<>> /\ files' = {}
    /\ hist' = NoHist
    /\ UNCHANGED <<world, callVars>>

Next ==
    \/ TorchInit \/ TorchEpochStart \/ TorchTrainStep \/ TorchEpochEnd
    \/ TorchEvalStart \/ TorchEvalStep \/ TorchReport
    \/ TorchGridStart \/ TorchGridStep \/ TorchGridShow \/ TorchViz
    \/ JaxInit \/ JaxEpochStart \/ JaxTrainStep \/ JaxEpochEnd
    \/ JaxEvalStart \/ JaxEvalStep \/ JaxReport
    \/ JaxGridStart \/ JaxGridStep \/ JaxGridShow

Spec == Init /\ [][Next]_vars

\* Behaviours in which the notebook is executed up to MaxRuns times.
NextRerun == Next \/ Rerun

SpecRerun == Init /\ [][NextRerun]_vars

(* ------------------------- position in the notebook ------------------- *)
PcOrder ==
    <<"t_init", "t_epoch", "t_batch", "t_eval", "t_grid_start", "t_grid", "t_viz",
      "j_init", "j_epoch", "j_batch", "j_eval", "j_grid_start", "j_grid", "done">>

\* 0 for "error"
Rank(p) == IF \E i \in 1..Len(PcOrder) : PcOrder[i] = p
           THEN CHOOSE i \in 1..Len(PcOrder) : PcOrder[i] = p
           ELSE 0

Past(p) == Rank(pc) > Rank(p)

TorchTrained == (pc = "t_epoch" /\ epoch >= Epochs) \/ Past("t_batch")

JaxTrained == (pc = "j_epoch" /\ epoch >= Epochs) \/ Past("j_batch")

(* ======================= accuracy (C1, C7) ============================ *)
\* Correct top-1 predictions counted one example at a time, whatever the
\* batching: example i alone is sent through the model.
RefCorrectTorch ==
    SumSeq([i \in 1..Len(testSet) |->
        LET x == default_collate(Samples(testSet, <<i>>, "test_dataset"))
        IN  IF Argmax(NetForward(net, x.items[1]).out)[1] = testSet[i].label THEN 1 ELSE 0])

RefCorrectJax ==
    SumSeq([i \in 1..Len(testSet) |->
        LET x == numpy_collate(Samples(testSet, <<i>>, "test_data"))
        IN  IF Argmax(SimpleNNCall(state.params, ReshapeRows(x.items[1])).out)[1]
               = testSet[i].label THEN 1 ELSE 0])

\* C1: in both pipelines the reported test accuracy equals 100 * correct /
\* total, correct and total being the numbers of correct top-1 predictions
\* and of examples over all evaluation batches, a short last batch included.
C1_ReportIsPercentCorrect ==
    \A k \in 1..Len(printed) :
        /\ printed[k].who = "torch" =>
               FracEq(printed[k].value, <<100 * RefCorrectTorch, Len(testSet)>>)
        /\ printed[k].who = "jax" =>
               FracEq(printed[k].value, <<100 * RefCorrectJax, Len(testSet)>>)

\* C7: every reported accuracy lies in [0, 100].
C7_AccuracyInRange ==
    \A k \in 1..Len(printed) :
        /\ printed[k].value[2] > 0
        /\ FracLeq(<<0, 1>>, printed[k].value)
        /\ FracLeq(printed[k].value, <<100, 1>>)

\* Both pipelines have reported after a short last batch, the PyTorch one
\* at the top of the range and the JAX one strictly inside it.
C7_Witness ==
    /\ pc = "done"
    /\ Len(printed) = 2
    /\ Len(testSet) % BatchSize # 0
    /\ Len(testSet) > BatchSize
    /\ FracEq(printed[1].value, <<100, 1>>)
    /\ ~FracLeq(printed[2].value, <<0, 1>>)
    /\ ~FracLeq(<<1, 1>>, printed[2].value)

(* ========================= loop counts (C2) =========================== *)
\* C2: each training loop runs exactly 2 epochs of ceil(n/batch) batches and
\* ends, each evaluation loop runs ceil(m/batch) batches and yields exactly
\* one accuracy; for 60000 and 10000 examples in batches of 64 that is 938
\* and 157 batches.
C2_LoopCounts ==
    LET perEpoch == CeilDiv(Len(trainSet), BatchSize)
        evalBatches == CeilDiv(Len(testSet), BatchSize)
        By(who) == {k \in 1..Len(printed) : printed[k].who = who}
    IN  /\ pc = "done" => RealTrainBatches = 938 /\ RealTestBatches = 157
        /\ pc # "error"
        /\ Len(hist.tBatches) <= 2 /\ Len(hist.jBatches) <= 2
        /\ TorchTrained => hist.tBatches = <<perEpoch, perEpoch>>
        /\ JaxTrained => hist.jBatches = <<perEpoch, perEpoch>>
        /\ Past("t_eval") => hist.tEval = evalBatches /\ Cardinality(By("torch")) = 1
        /\ ~Past("t_eval") => By("torch") = {}
        /\ Past("j_eval") => hist.jEval = evalBatches /\ Cardinality(By("jax")) = 1
        /\ ~Past("j_eval") => By("jax") = {}

\* The notebook has finished on data sets that end in a short batch.
C2_Witness ==
    /\ pc = "done"
    /\ Len(trainSet) > BatchSize /\ Len(trainSet) % BatchSize # 0
    /\ Len(testSet) > BatchSize /\ Len(testSet) % BatchSize # 0
    /\ hist.tBatches = <<2, 2>> /\ hist.jEval = 2

(* ===================== frame of evaluation (C3) ======================= *)
\* C3: from the end of training on, no step of the evaluation pass or of the
\* visualization passes changes a parameter or the optimizer's momentum
\* state, in either pipeline.
C3_EvalVizFrame ==
    [][/\ TorchTrained => net' = net /\ optState' = optState
       /\ JaxTrained => state' = state]_vars

\* Both pipelines were trained (parameters moved, momentum held) and both
\* evaluation and visualization passes are over.
C3_Witness ==
    /\ pc = "done"
    /\ net # hist.tInit /\ optState.set /\ optState.b # ZeroParams
    /\ state.params # hist.jInit /\ state.trace # ZeroParams
    /\ Len(printed) = 2 /\ Len(tiles) > 0 /\ files # {}

(* ========================= update rule (C4) =========================== *)
\* The textbook rule run over the logged batches from the initial
\* parameters: velocity = momentum * velocity - lr * gradient, from zero;
\* parameter += velocity; the gradient is the batch's, at the parameters
\* before the update.
ClassicStep(before, entry) ==
    LET g == LossGrad(before.p, entry.inputs, entry.labels)
        v == [n \in ParamNames |->
                TimesMomentum(before.v[n]) - (g[n] * LrNum * Scale) \div LrDen]
    IN  [p |-> [n \in ParamNames |-> before.p[n] + v[n]], v |-> v]

RECURSIVE ClassicSgd(_, _)
ClassicSgd(p0, log) ==
    IF log = <<>> THEN [p |-> p0, v |-> ZeroParams]
    ELSE CHOOSE r \in {ClassicStep(before, Last(log)) :
                          before \in {ClassicSgd(p0, Front(log))}} : TRUE

\* C4: every training batch causes exactly one update, made with that
\* batch's gradient alone, taken at the parameters before the update, by
\* velocity = 0.9 * velocity - 0.001 * gradient (from zero), p += velocity.
C4_MomentumRule ==
    LET t == ClassicSgd(hist.tInit, hist.tLog)
        j == ClassicSgd(hist.jInit, hist.jLog)
    IN  /\ LrNum * 1000 = LrDen /\ MomNum * 10 = 9 * MomDen
        /\ net = t.p
        /\ [n \in ParamNames |-> 0 - TimesLr(optState.b[n])] = t.v
        /\ Len(hist.tLog) = SumSeq(hist.tBatches)
        /\ state.params = j.p
        /\ [n \in ParamNames |-> 0 - TimesLr(state.trace[n])] = j.v
        /\ state.step = Len(hist.jLog) /\ Len(hist.jLog) = SumSeq(hist.jBatches)

\* Both pipelines have made all their updates, with a non-zero gradient on
\* the first batch and on a later one, so that the momentum term and a
\* carried-over gradient would both show.
C4_Witness ==
    /\ pc = "done"
    /\ Len(hist.tLog) = MaxSteps /\ Len(hist.jLog) = MaxSteps
    /\ LossGrad(hist.tInit, hist.tLog[1].inputs, hist.tLog[1].labels) # ZeroParams
    /\ pgrad.set /\ pgrad.g # ZeroParams
    /\ LossGrad(hist.jInit, hist.jLog[1].inputs, hist.jLog[1].labels) # ZeroParams
    /\ net # hist.tInit /\ state.params # hist.jInit

(* ========================= determinism (C5) =========================== *)
\* C5: two executions of the notebook with the same seed go through the same
\* parameter initialisation and the same shuffled batch orders and report
\* the same accuracies.  The seed is the one the notebook sets, PRNGKey(0).
C5_SameSeedSameRun ==
    (prev.valid /\ pc = "done" /\ prev.hist.seed = hist.seed) =>
        /\ prev.hist.tInit = hist.tInit
        /\ prev.hist.jInit = hist.jInit
        /\ prev.hist.orders = hist.orders
        /\ prev.printed = printed

(* ========================= weight grid (C6) =========================== *)
\* C6: each grid loop visits all 132 cells, draws weight row i as a 28 x 28
\* image into cell i for the 128 cells i < 128, each once and in order, and
\* leaves cells 128..131 blank.
C6_WeightGrid ==
    /\ pc # "error"
    /\ pc \in {"t_grid", "j_grid"} =>
          tiles = [k \in 1..Min(cell, 128) |->
                      [cell |-> k - 1, row |-> k - 1, img |-> <<28, 28>>]]
    /\ (pc = "t_viz" \/ pc = "done") =>
          /\ cell = 132
          /\ tiles = [k \in 1..128 |-> [cell |-> k - 1, row |-> k - 1, img |-> <<28, 28>>]]
          /\ {c \in 0..131 : \A k \in 1..Len(tiles) : tiles[k].cell # c} = 128..131

\* A finished grid of each pipeline.
C6_Witness ==
    /\ pc = "done" /\ cell = GridCells /\ Len(tiles) = Hidden
    /\ weights = JaxGridWeights

(* ======================== preprocessing (C10) ========================= *)
\* C10: the test images given to the evaluator went through the transform
\* the training images went through (ToTensor and nothing else).
C10_SameTransform ==
    batch.who \in {"t_eval", "j_eval"} =>
        batch.data.items[1].vals =
            [i \in 1..Len(batch.idx) |-> TrainTransform(testSet[batch.idx[i]].px).vals[1]]

(* ==================== forward pass on any batch (C8) ================== *)
FwdDims == {1, ImgSide - 1, ImgSide, InFeatures}

RECURSIVE SeqsUpTo(_, _)
SeqsUpTo(S, n) ==
    IF n = 0 THEN {<<>>}
    ELSE LET shorter == SeqsUpTo(S, n - 1)
         IN  shorter \cup {Append(q, e) : q \in shorter, e \in S}

\* Batches of n examples of every shape of at most as many dimensions as an
\* image has.
FwdInputs ==
    {[kind |-> "tensor", shape |-> <<n>> \o rest, vals |-> [i \in 1..n |-> FixOne],
      items |-> <<>>] : n \in 0..MaxFwdBatch, rest \in SeqsUpTo(FwdDims, Len(ImageShape))}

InitFwd ==
    /\ trainSet = <<>> /\ testSet = <<>>
    /\ run = 1 /\ gen = 0 /\ prev = NoPrev
    /\ FreshProcess
    /\ fwdIn \in FwdInputs /\ fwdOut = NoCall
    /\ collIn = <<>> /\ collOut = PyError

\* net(x)
CallNetForward ==
    /\ fwdOut.who = "none"
    /\ LET r == NetForward(net, fwdIn)
       IN  fwdOut' = [who |-> "torch", out |-> r.out, ran |-> r.ran]
    /\ UNCHANGED <<world, run, pc, gen, loopVars, torchVars, jaxVars, gridVars, outVars,
                   hist, prev, fwdIn, collIn, collOut>>

\* model.apply({'params': params}, x)
CallSimpleNN ==
    /\ fwdOut.who = "none"
    /\ LET r == SimpleNNCall(state.params, fwdIn)
       IN  fwdOut' = [who |-> "jax", out |-> r.out, ran |-> r.ran]
    /\ UNCHANGED <<world, run, pc, gen, loopVars, torchVars, jaxVars, gridVars, outVars,
                   hist, prev, fwdIn, collIn, collOut>>

NextFwd == CallNetForward \/ CallSimpleNN

SpecFwd == InitFwd /\ [][NextFwd]_vars

\* Values per example of a batch.
PerExample(x) == Prod(Tail(x.shape))

\* C8: in both forward passes a batch whose examples do not flatten to
\* exactly 784 values ends in an error before the first layer's product has
\* run; only batches of per-example size 784 reach the first affine layer.
C8_ShapeRejected ==
    fwdOut.who # "none" =>
        /\ PerExample(fwdIn) # 784 =>
              /\ fwdOut.out.kind = "error"
              /\ \A k \in 1..Len(fwdOut.ran) : fwdOut.ran[k] # "fc1"
        /\ (\E k \in 1..Len(fwdOut.ran) : fwdOut.ran[k] = "fc1") => PerExample(fwdIn) = 784

\* A 28 x 27 batch was handed to the PyTorch model, which flattened it and
\* stopped there.
C8_Witness ==
    /\ fwdOut.who = "torch"
    /\ fwdIn.shape = <<MaxFwdBatch, 1, ImgSide, ImgSide - 1>>
    /\ fwdOut.out.kind = "error"
    /\ fwdOut.ran = <<"flatten">>

(* ===================== numpy_collate on any list (C9) ================= *)
CollateSamples ==
    {PyTuple(<<PyTensor(ImageShape, v), PyInt(l)>>) : v \in 0..FixOne, l \in Labels}

InitCollate ==
    /\ trainSet = <<>> /\ testSet = <<>>
    /\ run = 1 /\ gen = 0 /\ prev = NoPrev
    /\ FreshProcess
    /\ fwdIn = PyError /\ fwdOut = NoCall
    /\ collIn \in SeqsUpTo(CollateSamples, MaxCollate) \ {<<>>}
    /\ collOut = PyError

\* numpy_collate(batch), as the loader calls it
CallCollate ==
    /\ collOut = PyError
    /\ collOut' = numpy_collate(collIn)
    /\ UNCHANGED <<world, run, pc, gen, loopVars, torchVars, jaxVars, gridVars, outVars,
                   hist, prev, fwdIn, fwdOut, collIn>>

NextCollate == CallCollate

SpecCollate == InitCollate /\ [][NextCollate]_vars

\* C9: numpy_collate of k (image, label) samples is a two-element batch
\* [images, labels], both of length k, position i of each holding the image
\* and the label of sample i.
C9_CollateKeepsPairs ==
    collOut # PyError =>
        LET k == Len(collIn)
            images == collOut.items[1]
            labels == collOut.items[2]
        IN  /\ collOut.kind = "list" /\ Len(collOut.items) = 2
            /\ images.kind = "ndarray" /\ labels.kind = "ndarray"
            /\ images.shape = <<k>> \o ImageShape /\ labels.shape = <<k>>
            /\ Len(images.vals) = k /\ Len(labels.vals) = k
            /\ \A i \in 1..k : /\ images.vals[i] = collIn[i].items[1].vals[1]
                               /\ labels.vals[i] = collIn[i].items[2].vals[1]

\* A full-length list of samples that differ in image and in label was
\* collated.
C9_Witness ==
    /\ collOut # PyError
    /\ Len(collIn) = MaxCollate
    /\ collIn[1].items[1].vals # collIn[2].items[1].vals
    /\ collIn[1].items[2].vals # collIn[2].items[2].vals
    /\ collOut.items[2].vals[1] # collOut.items[2].vals[2]

====
